---- MODULE Spec2Model ----
(***************************************************************************)
(* Options strategy analyzer (src/src/analysis/strategies.js).             *)
(*                                                                         *)
(* Money amounts (prices, strikes, premiums, P&L) are integers counting    *)
(* thousandths of a dollar, so 100000 is $100.00 and 5 is $0.005; the      *)
(* arithmetic of the source is carried out exactly on these decimals, and  *)
(* rounding to 2 decimals maps onto multiples of 10.  The binary rounding  *)
(* error of the source's doubles is not modelled; the inputs are decimals  *)
(* on which the doubles round to the same cents as the exact values.       *)
(* Dates are integers counting days; InvalidDate is the Date that          *)
(* `new Date(x)` yields for an unparsable or missing x.                    *)
(***************************************************************************)
EXTENDS Integers, Sequences, FiniteSets, TLC

VARIABLES
    positions,  \* the strategy (ordered list of legs) the caller holds
    built,      \* the constructor call that produced it, with its arguments
    op,         \* the operation that ran last
    args,       \* the arguments of that operation
    ret,        \* what it returned
    iv          \* the locals of a running calculateImpliedVolatility

vars == <<positions, built, op, args, ret, iv>>

-----------------------------------------------------------------------------
(* Bounds of the model.                                                    *)

MaxLegs == 2          \* legs in a caller-supplied positions list
MaxQuantity == 1      \* contracts or shares of a caller-supplied leg, long or short
MaxStrikeStep == 0    \* strikes 110, 120, ... in $10 steps from $110
MaxPremium == 5       \* whole-dollar premiums 5..MaxPremium besides 0.10, 2, 3
MaxDay == 1           \* valid dates 0..MaxDay, the strategies expiring on MaxDay
MaxGridLen == 2       \* length of a caller-supplied price grid
MaxSteps == 3         \* small step counts 1..MaxSteps for generatePriceRange
MaxTries == 2         \* iteration limits 0..MaxTries passed by a caller

-----------------------------------------------------------------------------
(* Values of the source language.                                          *)

InvalidDate == -1     \* new Date(undefined), new Date("garbage")
NaN == -2147483646    \* the number NaN
Undefined == -2147483645  \* an argument the caller did not supply
Infinity == 2147483647
NegInfinity == -2147483647
Unlimited == 2147483646   \* the string 'Unlimited' in place of a number

Max(a, b) == IF a >= b THEN a ELSE b

\* Math.round(x * 100) / 100 : nearest cent, ties towards +Infinity; NaN
\* stays NaN
Round2(x) == IF x = NaN THEN NaN ELSE 10 * ((x + 5) \div 10)

\* Math.round((num / den) * 100) / 100 for an exact quotient num / den
Round2Quot(num, den) == 10 * ((2 * num + 10 * den) \div (20 * den))

-----------------------------------------------------------------------------
(* Real arithmetic of the pricing kernel.                                   *)
(*                                                                          *)
(* A real number x without a unit (a volatility, a rate, a time in years,  *)
(* d1, a probability) is the integer x * 10^8; a money amount inside the    *)
(* kernel counts millionths of a dollar.  Products and quotients are        *)
(* exact to the last digit kept; Math.exp, Math.log and Math.sqrt are       *)
(* evaluated by series to that precision.  Every intermediate value stays   *)
(* within 32 bits.                                                          *)

Q == 100000000        \* 1.0
H == 10000            \* the square root of Q
Cap == 1500000000     \* 15.0: quotients are held to -15.0 .. 15.0

Abs(x) == IF x < 0 THEN 0 - x ELSE x
Sign(x) == IF x < 0 THEN -1 ELSE 1

\* floor(a * b / Q) for a, b >= 0, by halves of four digits
MulPos[a \in Int, b \in Int] ==
    LET a1 == a \div H
        a0 == a % H
        b1 == b \div H
        b0 == b % H
    IN  a1 * b1 + (a1 * b0) \div H + (a0 * b1) \div H
          + (((a1 * b0) % H) + ((a0 * b1) % H) + (a0 * b0) \div H) \div H

\* a * b
FxMul[a \in Int, b \in Int] == Sign(a) * Sign(b) * MulPos[Abs(a), Abs(b)]

\* <<q, r>> with 0 <= r < b stands for q * b + r
Twice[qr \in Int \X Int, b \in Int] ==
    IF 2 * qr[2] >= b THEN <<2 * qr[1] + 1, 2 * qr[2] - b>>
                      ELSE <<2 * qr[1], 2 * qr[2]>>

Plus[qr \in Int \X Int, st \in Int \X Int, b \in Int] ==
    IF qr[2] + st[2] >= b THEN <<qr[1] + st[1] + 1, qr[2] + st[2] - b>>
                          ELSE <<qr[1] + st[1], qr[2] + st[2]>>

Times10[qr \in Int \X Int, b \in Int] == Twice[Plus[Twice[Twice[qr, b], b], qr, b], b]

\* long division: n more decimal digits of the quotient q, remainder r
MoreDigits[q \in Int, r \in Int, b \in Int, n \in Int] ==
    IF n = 0
    THEN q
    ELSE LET t == Times10[<<0, r>>, b]
         IN  MoreDigits[q * 10 + t[1], t[2], b, n - 1]

\* floor(a * 10^n / b) for a >= 0, b > 0
DivDigits[a \in Int, b \in Int, n \in Int] == MoreDigits[a \div b, a % b, b, n]

\* a / b for b # 0
FxDiv[a \in Int, b \in Int] == Sign(a) * Sign(b) * DivDigits[Abs(a), Abs(b), 8]

\* a / b for b # 0, held to -Cap .. Cap
FxDivSat[a \in Int, b \in Int] ==
    IF Abs(a) \div Abs(b) >= 15
    THEN Sign(a) * Sign(b) * Cap
    ELSE FxDiv[a, b]

Ln2 == 69314718       \* Math.log(2)
Sqrt2 == 141421356    \* Math.sqrt(2)
Sqrt2Pi == 250662827  \* Math.sqrt(2 * Math.PI)

\* the sum of the terms f^n / n! of the exponential series, n = 0 .. 12;
\* term is the term before the n-th, acc the sum of the terms before it
ExpTerms[f \in Int, n \in Int, term \in Int, acc \in Int] ==
    IF n > 12
    THEN acc + term
    ELSE ExpTerms[f, n + 1, FxMul[term, f] \div n, acc + term]

\* e * 2^k
Scale[e \in Int, k \in Int] == IF k < 0 THEN e \div (2 ^ (0 - k)) ELSE e * (2 ^ k)

\* Math.exp(y) for y <= 2: y = k * ln 2 + f with 0 <= f < ln 2
FxExp[y \in Int] ==
    IF y < 0 - 19 * Q
    THEN 0
    ELSE Scale[ExpTerms[y % Ln2, 1, Q, 0], y \div Ln2]

\* x = m * 2^k with 0.75 <= m < 1.5, as <<m, k>>
LnReduce[x \in Int, k \in Int] ==
    IF x >= (3 * Q) \div 2
    THEN LnReduce[x \div 2, k + 1]
    ELSE IF x < (3 * Q) \div 4
    THEN LnReduce[2 * x, k - 1]
    ELSE <<x, k>>

\* the sum of the terms z^n / n of the series of atanh, n = 1, 3 .. 13;
\* pw is z^n, z2 is z^2, acc the sum of the terms before the n-th
AtanhTerms[z2 \in Int, n \in Int, pw \in Int, acc \in Int] ==
    IF n > 13
    THEN acc
    ELSE AtanhTerms[z2, n + 2, FxMul[pw, z2], acc + pw \div n]

Atanh[z \in Int] == AtanhTerms[FxMul[z, z], 1, z, 0]

\* ln(m * 2^k) = k * ln 2 + 2 * atanh((m - 1) / (m + 1))
LnOf[mk \in Int \X Int] == mk[2] * Ln2 + 2 * Atanh[FxDiv[mk[1] - Q, mk[1] + Q]]

\* Math.log(x) for x > 0
FxLn[x \in Int] == LnOf[LnReduce[x, 0]]

SqrtIter[x \in Int, y \in Int, n \in Int] ==
    IF n = 0 THEN y ELSE SqrtIter[x, (y + FxDiv[x, y]) \div 2, n - 1]

\* Math.sqrt(x) for 0 <= x <= 4, by Newton's iteration from 1.0
FxSqrt[x \in Int] == IF x = 0 THEN 0 ELSE SqrtIter[x, Q, 12]

\* the nearest multiple of u, a tie going up: Math.round(x / u) * u
RoundTo[x \in Int, u \in Int] == u * ((x + u \div 2) \div u)

\* an infinite d1 or d2 acts as the largest value held
Fin(x) == IF x = Infinity THEN Cap ELSE IF x = NegInfinity THEN 0 - Cap ELSE x

-----------------------------------------------------------------------------
(* Input domains.                                                           *)

ValidDates == 0..MaxDay
Dates == ValidDates \cup {InvalidDate}

Strikes == {50000, 100000, 103000} \cup {110000 + 10000 * k : k \in 0..MaxStrikeStep}
Premiums == {100, 2000, 3000} \cup {1000 * k : k \in 5..MaxPremium}
Expiries == {MaxDay}
Spots == {50000, 100000}
Quantities == {0 - MaxQuantity, MaxQuantity}

StockLeg(premium, quantity) ==
    [premium |-> premium, quantity |-> quantity, type |-> "stock"]

OptionLeg(optionType, strike, premium, quantity, expiry) ==
    [premium |-> premium, quantity |-> quantity, type |-> "option",
     optionType |-> optionType, strike |-> strike, expiry |-> expiry]

\* legs a caller may put in a positions list of its own
Legs ==
    {StockLeg(100005, q) : q \in Quantities \cup {100}}
    \cup {OptionLeg(t, 100000, p, q, e) :
            t \in {"call", "put"}, p \in {1000 * MaxPremium},
            q \in Quantities, e \in Expiries}

\* the four strikes of an iron condor, in rising order
CondorStrikes ==
    {s \in Strikes \X Strikes \X Strikes \X Strikes :
        s[1] < s[2] /\ s[2] < s[3] /\ s[3] < s[4]}
CondorPremiums == {100, 2000, 1000 * MaxPremium}

SeqsUpTo(S, n) == UNION {[1..k -> S] : k \in 0..n}

CustomStrategies == SeqsUpTo(Legs, MaxLegs)

PricePoints == {95000, 100005, 115000}
Grids == SeqsUpTo(PricePoints, MaxGridLen)

-----------------------------------------------------------------------------
(* Payoff evaluator.                                                        *)

\* Math.max(0, (expiryDate - currentDate) / (365 * 24 * 60 * 60 * 1000)),
\* in days: NaN when either date is invalid
TimeToExpiry(expiry, currentDate) ==
    IF expiry = InvalidDate \/ currentDate = InvalidDate
    THEN NaN
    ELSE Max(0, expiry - currentDate)

IntrinsicValue(optionType, strike, stockPrice) ==
    IF optionType = "call"
    THEN Max(0, stockPrice - strike)
    ELSE Max(0, strike - stockPrice)

\* variant: the contract multiplier applied to stock legs as well
calculatePositionPL_StockMultiplier(position, stockPrice, currentDate) ==
    IF stockPrice = NaN
    THEN NaN
    ELSE IF position.type = "stock"
    THEN (stockPrice - position.premium) * position.quantity * 100
    ELSE (IntrinsicValue(position.optionType, position.strike, stockPrice)
            - position.premium) * position.quantity * 100

\* variant: before expiration the leg is valued without its premium
calculatePositionPL_BeforeExpiry(position, stockPrice, currentDate) ==
    IF stockPrice = NaN
    THEN NaN
    ELSE IF position.type = "stock"
    THEN (stockPrice - position.premium) * position.quantity
    ELSE LET timeToExpiry == TimeToExpiry(position.expiry, currentDate)
         IN  IF timeToExpiry # NaN /\ timeToExpiry <= 0
             THEN (IntrinsicValue(position.optionType, position.strike, stockPrice)
                     - position.premium) * position.quantity * 100
             ELSE IntrinsicValue(position.optionType, position.strike, stockPrice)
                     * position.quantity * 100

\* a stock price of NaN makes stockPrice - premium and Math.max(0, ...) NaN
calculatePositionPL(position, stockPrice, currentDate) ==
    IF stockPrice = NaN
    THEN NaN
    ELSE IF position.type = "stock"
    THEN (stockPrice - position.premium) * position.quantity
    ELSE LET timeToExpiry == TimeToExpiry(position.expiry, currentDate)
         IN  IF timeToExpiry # NaN /\ timeToExpiry <= 0
             THEN \* at expiration
                  (IntrinsicValue(position.optionType, position.strike, stockPrice)
                     - position.premium) * position.quantity * 100
             ELSE \* before expiration: intrinsic value minus premium
                  (IntrinsicValue(position.optionType, position.strike, stockPrice)
                     - position.premium) * position.quantity * 100

\* a + b of two numbers either of which may be NaN
Sum(a, b) == IF a = NaN \/ b = NaN THEN NaN ELSE a + b

\* positions.reduce((sum, position) => sum + calculatePositionPL(...), 0)
RECURSIVE TotalPL(_, _, _, _)
TotalPL(ps, k, price, currentDate) ==
    IF k = 0
    THEN 0
    ELSE Sum(TotalPL(ps, k - 1, price, currentDate),
             calculatePositionPL(ps[k], price, currentDate))

\* variant: the total is not rounded
calculateStrategyPL_Unrounded(ps, priceRange, currentDate) ==
    [i \in 1..Len(priceRange) |->
        [price |-> priceRange[i],
         pl |-> TotalPL(ps, Len(ps), priceRange[i], currentDate)]]

calculateStrategyPL(ps, priceRange, currentDate) ==
    [i \in 1..Len(priceRange) |->
        [price |-> priceRange[i],
         pl |-> Round2(TotalPL(ps, Len(ps), priceRange[i], currentDate))]]

\* the grid in exact arithmetic over the common denominator 10 * steps;
\* percentRange counts tenths (3 is 0.3), element i of the source is at i + 1
\* variant: one point per step, the upper end of the range left out
generatePriceRange_NoLastPoint(centerPrice, percentRange, steps) ==
    IF steps = 0 \/ centerPrice = Undefined
    THEN [i \in 1..steps |-> NaN]
    ELSE LET den == 10 * steps
             minPrice == centerPrice * (10 - percentRange) * steps
             maxPrice == centerPrice * (10 + percentRange) * steps
             stepSize == (maxPrice - minPrice) \div steps
         IN  [i \in 1..steps |-> Round2Quot(minPrice + (i - 1) * stepSize, den)]

\* with 0 steps stepSize is x / 0, infinite or NaN, and the one point
\* minPrice + 0 * stepSize is NaN; without a center price minPrice, maxPrice
\* and every point are NaN
generatePriceRange(centerPrice, percentRange, steps) ==
    IF steps = 0 \/ centerPrice = Undefined
    THEN [i \in 1..(steps + 1) |-> NaN]
    ELSE LET den == 10 * steps
             minPrice == centerPrice * (10 - percentRange) * steps
             maxPrice == centerPrice * (10 + percentRange) * steps
             stepSize == (maxPrice - minPrice) \div steps
         IN  [i \in 1..(steps + 1) |->
                 Round2Quot(minPrice + (i - 1) * stepSize, den)]

-----------------------------------------------------------------------------
(* Strategy composer.                                                       *)

\* variant: one share against the short contract
coveredCall_OneShare(stockPrice, callStrike, callPremium, expiry) ==
    << StockLeg(stockPrice, 1),
       OptionLeg("call", callStrike, callPremium, -1, expiry) >>

coveredCall(stockPrice, callStrike, callPremium, expiry) ==
    << StockLeg(stockPrice, 100),
       OptionLeg("call", callStrike, callPremium, -1, expiry) >>

\* variant: the long and the short leg exchanged
bullCallSpread_ShortLower(lowerStrike, lowerPremium, upperStrike, upperPremium, expiry) ==
    << OptionLeg("call", lowerStrike, lowerPremium, -1, expiry),
       OptionLeg("call", upperStrike, upperPremium, 1, expiry) >>

\* variant: the upper leg carrying the lower leg's premium
bullCallSpread_OnePremium(lowerStrike, lowerPremium, upperStrike, upperPremium, expiry) ==
    << OptionLeg("call", lowerStrike, lowerPremium, 1, expiry),
       OptionLeg("call", upperStrike, lowerPremium, -1, expiry) >>

bullCallSpread(lowerStrike, lowerPremium, upperStrike, upperPremium, expiry) ==
    << OptionLeg("call", lowerStrike, lowerPremium, 1, expiry),
       OptionLeg("call", upperStrike, upperPremium, -1, expiry) >>

\* variant: both legs calls
longStraddle_TwoCalls(strike, callPremium, putPremium, expiry) ==
    << OptionLeg("call", strike, callPremium, 1, expiry),
       OptionLeg("call", strike, putPremium, 1, expiry) >>

longStraddle(strike, callPremium, putPremium, expiry) ==
    << OptionLeg("call", strike, callPremium, 1, expiry),
       OptionLeg("put", strike, putPremium, 1, expiry) >>

\* variant: each strike carrying the other strike's premium
bearPutSpread_PremiumsExchanged(lowerStrike, lowerPremium, upperStrike, upperPremium, expiry) ==
    << OptionLeg("put", upperStrike, lowerPremium, 1, expiry),
       OptionLeg("put", lowerStrike, upperPremium, -1, expiry) >>

bearPutSpread(lowerStrike, lowerPremium, upperStrike, upperPremium, expiry) ==
    << OptionLeg("put", upperStrike, upperPremium, 1, expiry),
       OptionLeg("put", lowerStrike, lowerPremium, -1, expiry) >>

\* variant: the inner legs bought and the outer legs sold
ironCondor_LongInside(putLower, putLowerPrem, putUpper, putUpperPrem, callLower, callLowerPrem, callUpper, callUpperPrem, expiry) ==
    << OptionLeg("put", putLower, putLowerPrem, -1, expiry),
       OptionLeg("put", putUpper, putUpperPrem, 1, expiry),
       OptionLeg("call", callLower, callLowerPrem, 1, expiry),
       OptionLeg("call", callUpper, callUpperPrem, -1, expiry) >>

ironCondor(putLower, putLowerPrem, putUpper, putUpperPrem, callLower, callLowerPrem, callUpper, callUpperPrem, expiry) ==
    << OptionLeg("put", putLower, putLowerPrem, 1, expiry),
       OptionLeg("put", putUpper, putUpperPrem, -1, expiry),
       OptionLeg("call", callLower, callLowerPrem, -1, expiry),
       OptionLeg("call", callUpper, callUpperPrem, 1, expiry) >>

-----------------------------------------------------------------------------
(* Strategy analyzer.                                                       *)

AnalyzePercent == 3   \* 0.3
AnalyzeSteps == 100

\* variant: the loss comparison turned around
ScanStep_LossCompare(plData, i, acc) ==
    LET pl == plData[i].pl
        maxProfit == IF pl # NaN /\ pl > acc.maxProfit THEN pl ELSE acc.maxProfit
        maxLoss == IF pl # NaN /\ pl > acc.maxLoss THEN pl ELSE acc.maxLoss
        crossed == /\ i > 1
                   /\ pl # NaN /\ plData[i - 1].pl # NaN
                   /\ \/ plData[i - 1].pl < 0 /\ pl >= 0
                      \/ plData[i - 1].pl > 0 /\ pl <= 0
    IN  [maxProfit |-> maxProfit,
         maxLoss |-> maxLoss,
         breakevenPoints |-> IF crossed
                             THEN Append(acc.breakevenPoints, plData[i].price)
                             ELSE acc.breakevenPoints]

\* variant: a previous P&L of exactly 0 also counts as a crossing
ScanStep_ZeroCrosses(plData, i, acc) ==
    LET pl == plData[i].pl
        maxProfit == IF pl # NaN /\ pl > acc.maxProfit THEN pl ELSE acc.maxProfit
        maxLoss == IF pl # NaN /\ pl < acc.maxLoss THEN pl ELSE acc.maxLoss
        crossed == /\ i > 1
                   /\ pl # NaN /\ plData[i - 1].pl # NaN
                   /\ \/ plData[i - 1].pl <= 0 /\ pl >= 0
                      \/ plData[i - 1].pl >= 0 /\ pl <= 0
    IN  [maxProfit |-> maxProfit,
         maxLoss |-> maxLoss,
         breakevenPoints |-> IF crossed
                             THEN Append(acc.breakevenPoints, plData[i].price)
                             ELSE acc.breakevenPoints]

\* variant: a pl of exactly 0 is reported at every point
ScanStep_EveryZero(plData, i, acc) ==
    LET pl == plData[i].pl
        maxProfit == IF pl # NaN /\ pl > acc.maxProfit THEN pl ELSE acc.maxProfit
        maxLoss == IF pl # NaN /\ pl < acc.maxLoss THEN pl ELSE acc.maxLoss
        crossed == /\ i > 1
                   /\ pl # NaN /\ plData[i - 1].pl # NaN
                   /\ \/ plData[i - 1].pl < 0 /\ pl >= 0
                      \/ plData[i - 1].pl > 0 /\ pl <= 0
                      \/ pl = 0
    IN  [maxProfit |-> maxProfit,
         maxLoss |-> maxLoss,
         breakevenPoints |-> IF crossed
                             THEN Append(acc.breakevenPoints, plData[i].price)
                             ELSE acc.breakevenPoints]

\* one pass of the loop body for index i (1-based) over plData; every
\* comparison with a pl of NaN is false
ScanStep(plData, i, acc) ==
    LET pl == plData[i].pl
        maxProfit == IF pl # NaN /\ pl > acc.maxProfit THEN pl ELSE acc.maxProfit
        maxLoss == IF pl # NaN /\ pl < acc.maxLoss THEN pl ELSE acc.maxLoss
        crossed == /\ i > 1
                   /\ pl # NaN /\ plData[i - 1].pl # NaN
                   /\ \/ plData[i - 1].pl < 0 /\ pl >= 0
                      \/ plData[i - 1].pl > 0 /\ pl <= 0
    IN  [maxProfit |-> maxProfit,
         maxLoss |-> maxLoss,
         breakevenPoints |-> IF crossed
                             THEN Append(acc.breakevenPoints, plData[i].price)
                             ELSE acc.breakevenPoints]

\* the loop iterations lo..hi, entered with loop state acc; the range is run
\* as its first half and then its second half, in order, and the state between
\* the halves is bound as a value, which keeps the evaluation shallow
RECURSIVE ScanFrom(_, _, _, _)
ScanFrom(plData, lo, hi, acc) ==
    IF lo > hi
    THEN acc
    ELSE IF lo = hi
    THEN ScanStep(plData, lo, acc)
    ELSE LET mid == (lo + hi) \div 2
         IN  CHOOSE r \in {ScanFrom(plData, mid + 1, hi, half) :
                             half \in {ScanFrom(plData, lo, mid, acc)}} : TRUE

\* for (let i = 0; i < plData.length; i++) from the initial sentinels
Scan(plData) ==
    ScanFrom(plData, 1, Len(plData),
             [maxProfit |-> NegInfinity, maxLoss |-> Infinity,
              breakevenPoints |-> <<>>])

\* variant: stock legs counted as well
RECURSIVE NetPremiumSum_AllLegs(_, _)
NetPremiumSum_AllLegs(ps, k) ==
    IF k = 0
    THEN 0
    ELSE NetPremiumSum_AllLegs(ps, k - 1) + ps[k].premium * ps[k].quantity * 100

\* positions.reduce over option legs of premium * quantity * 100
RECURSIVE NetPremiumSum(_, _)
NetPremiumSum(ps, k) ==
    IF k = 0
    THEN 0
    ELSE NetPremiumSum(ps, k - 1)
           + (IF ps[k].type = "option"
              THEN ps[k].premium * ps[k].quantity * 100
              ELSE 0)

\* Math.round(x * 100) / 100 where x may be an infinity
RoundNumber(x) == IF x = Infinity \/ x = NegInfinity THEN x ELSE Round2(x)

analyzeStrategy(ps, spotPrice, expiry) ==
    LET priceRange == generatePriceRange(spotPrice, AnalyzePercent, AnalyzeSteps)
        plData == calculateStrategyPL(ps, priceRange, expiry)
        scan == Scan(plData)
    IN  [plData |-> plData,
         maxProfit |-> IF scan.maxProfit = Infinity
                       THEN Unlimited ELSE RoundNumber(scan.maxProfit),
         maxLoss |-> IF scan.maxLoss = NegInfinity
                     THEN Unlimited ELSE RoundNumber(scan.maxLoss),
         breakevenPoints |-> [j \in 1..Len(scan.breakevenPoints) |->
                                 Round2(scan.breakevenPoints[j])],
         netPremium |-> Round2(NetPremiumSum(ps, Len(ps)))]

-----------------------------------------------------------------------------
(* Pricing kernel.                                                          *)
(*                                                                          *)
(* Spot, strike and the money amounts of the output record count            *)
(* thousandths of a dollar as elsewhere; delta counts thousandths and       *)
(* gamma ten-thousandths, the precision they are rounded to.                *)

A1 == 25482959        \* 0.254829592
A2 == -28449674       \* -0.284496736
A3 == 142141374       \* 1.421413741
A4 == -145315203      \* -1.453152027
A5 == 106140543       \* 1.061405429
P == 32759110         \* 0.3275911

\* x is finite or an infinity; Math.exp(-x * x) is 0 to the digits kept
\* once x exceeds 4.6
\* (((((a5 * t + a4) * t) + a3) * t + a2) * t + a1) * t
Poly[t \in Int] ==
    FxMul[FxMul[FxMul[FxMul[FxMul[A5, t] + A4, t] + A3, t] + A2, t] + A1, t]

\* Math.exp(-x * x)
ExpNegSquare[x \in Int] ==
    IF x > 46 * (Q \div 10) THEN 0 ELSE FxExp[0 - FxMul[x, x]]

\* y of normalCDF for the x it has rescaled
Erf[x \in Int] ==
    Q - FxMul[Poly[FxDiv[Q, Q + FxMul[P, x]]], ExpNegSquare[x]]

normalCDF[x \in Int] ==
    (Q + (IF x < 0 THEN -1 ELSE 1) * Erf[FxDiv[Abs(Fin(x)), Sqrt2]]) \div 2

\* Math.exp(-0.5 * x * x) is 0 to the digits kept once |x| exceeds 6.5
normalPDF[x \in Int] ==
    IF Abs(x) > 65 * (Q \div 10)
    THEN 0
    ELSE FxDiv[FxExp[0 - FxMul[Abs(x) \div 2, Abs(x)]], Sqrt2Pi]

\* Math.log(S / K), also where S / K is 0, infinite, negative or 0 / 0
LnRatio[S \in Int, K \in Int] ==
    IF K = 0
    THEN (IF S > 0 THEN Infinity ELSE NaN)
    ELSE IF S = 0
    THEN NegInfinity
    ELSE IF (S < 0) # (K < 0)
    THEN NaN
    ELSE FxLn[FxDivSat[Abs(S), Abs(K)]]

\* Math.log(S / K) + (r + 0.5 * sigma * sigma) * T
Numerator[ln \in Int, T \in Int, r \in Int, sigma \in Int] ==
    IF ln = Infinity \/ ln = NegInfinity
    THEN ln
    ELSE ln + FxMul[r + FxMul[sigma \div 2, sigma], T]

\* num / den, also where den is 0 or num is infinite
Quotient[num \in Int, den \in Int] ==
    IF den = 0
    THEN (IF num = 0 THEN NaN ELSE IF num > 0 THEN Infinity ELSE NegInfinity)
    ELSE IF num = Infinity \/ num = NegInfinity
    THEN (IF den > 0 THEN num ELSE 0 - num)
    ELSE FxDivSat[num, den]

\* d2 = d1 - sigma * Math.sqrt(T)
D1D2[d1 \in Int, den \in Int] ==
    [d1 |-> d1,
     d2 |-> IF d1 = NaN \/ d1 = Infinity \/ d1 = NegInfinity
            THEN d1 ELSE d1 - den]

\* d1 and d2 where Math.log(S / K) is ln and is a number
D1D2From[ln \in Int, T \in Int, r \in Int, sigma \in Int, den \in Int] ==
    D1D2[Quotient[Numerator[ln, T, r, sigma], den], den]

\* d1 and d2 where Math.log(S / K) is ln
D1D2OfLog[ln \in Int, T \in Int, r \in Int, sigma \in Int] ==
    IF sigma = NaN \/ sigma = Undefined \/ ln = NaN
    THEN [d1 |-> NaN, d2 |-> NaN]
    ELSE D1D2From[ln, T, r, sigma, FxMul[sigma, FxSqrt[T]]]

calculateD1D2[S \in Int, K \in Int, T \in Int, r \in Int, sigma \in Int] == D1D2OfLog[LnRatio[S, K], T, r, sigma]

\* Math.round(x * 100) / 100 of an amount in millionths, in thousandths
Cents[x \in Int] == RoundTo[x, 10000] \div 1000

\* normalPDF(d1) / (S * sigma * Math.sqrt(T)), rounded to 4 decimals
Gamma[pdf \in Int, gammaDen \in Int] ==
    IF gammaDen = 0
    THEN (IF pdf = 0 THEN NaN ELSE Infinity)
    ELSE RoundTo[Sign(gammaDen) * DivDigits[pdf, Abs(gammaDen), 4], 100] \div 100

\* variant: an option exactly at the money counted as in the money
ExpiredGreeks_AtTheMoney(S, K, optionType) ==
    [price |-> IF optionType = "call" THEN Max(0, S - K) ELSE Max(0, K - S),
     delta |-> IF optionType = "call"
               THEN (IF S >= K THEN 1000 ELSE 0)
               ELSE (IF S <= K THEN -1000 ELSE 0),
     gamma |-> 0, theta |-> 0, vega |-> 0, rho |-> 0]

\* the edge case of an expired option
ExpiredGreeks(S, K, optionType) ==
    [price |-> IF optionType = "call" THEN Max(0, S - K) ELSE Max(0, K - S),
     delta |-> IF optionType = "call"
               THEN (IF S > K THEN 1000 ELSE 0)
               ELSE (IF S < K THEN -1000 ELSE 0),
     gamma |-> 0, theta |-> 0, vega |-> 0, rho |-> 0]

\* the values of lines 279-314 from the probabilities and discount factors
BlackScholesValues[pdf \in Int, Nd1 \in Int, Nd2 \in Int, NegNd1 \in Int, NegNd2 \in Int, sqrtT \in Int, expRT \in Int, SM \in Int, KM \in Int, T \in Int, r \in Int, sigma \in Int, optionType \in {"call", "put"}] ==
    LET price == IF optionType = "call"
                 THEN FxMul[SM, Nd1] - FxMul[FxMul[KM, expRT], Nd2]
                 ELSE FxMul[FxMul[KM, expRT], NegNd2] - FxMul[SM, NegNd1]
        delta == IF optionType = "call" THEN Nd1 ELSE Nd1 - Q
        rho == IF optionType = "call"
               THEN FxMul[FxMul[FxMul[KM, T], expRT], Nd2] \div 100
               ELSE 0 - (FxMul[FxMul[FxMul[KM, T], expRT], NegNd2] \div 100)
        decay == FxDiv[FxMul[FxMul[SM, pdf], sigma], 2 * sqrtT]
        discounted == FxMul[FxMul[r, KM], expRT]
        thetaAnnual == IF optionType = "call"
                       THEN (0 - decay) - FxMul[discounted, Nd2]
                       ELSE (0 - decay) + FxMul[discounted, NegNd2]
    IN  [price |-> Cents[price],
         delta |-> RoundTo[delta, 100000] \div 100000,
         gamma |-> Gamma[pdf, FxMul[FxMul[SM, sigma], sqrtT]],
         theta |-> Cents[thetaAnnual \div 365],
         vega |-> Cents[FxMul[FxMul[SM, sqrtT], pdf] \div 100],
         rho |-> Cents[rho]]

\* the pairs { d1, d2 } that calculateD1D2 returns
D1D2Pairs == [d1 : Int, d2 : Int]

\* the values for T > 0 from d1 and d2
BlackScholesAt[d \in D1D2Pairs, S \in Int, K \in Int, T \in Int, r \in Int, sigma \in Int, optionType \in {"call", "put"}] ==
    IF d.d1 = NaN
    THEN [price |-> NaN, delta |-> NaN, gamma |-> NaN,
          theta |-> NaN, vega |-> NaN, rho |-> NaN]
    ELSE BlackScholesValues[normalPDF[d.d1], normalCDF[d.d1], normalCDF[d.d2],
                            normalCDF[0 - d.d1], normalCDF[0 - d.d2],
                            FxSqrt[T], FxExp[0 - FxMul[r, T]],
                            1000 * S, 1000 * K, T, r, sigma, optionType]

\* the Black-Scholes values for T > 0
BlackScholes(S, K, T, r, sigma, optionType) ==
    BlackScholesAt[calculateD1D2[S, K, T, r, sigma], S, K, T, r, sigma,
                   optionType]

DefaultRate == 5000000    \* 0.05

calculateGreeks(spotPrice, strikePrice, timeToExpiry, riskFreeRate, volatility, optionType) ==
    LET r == IF riskFreeRate = Undefined THEN DefaultRate ELSE riskFreeRate
    IN  IF timeToExpiry <= 0
        THEN ExpiredGreeks(spotPrice, strikePrice, optionType)
        ELSE BlackScholes(spotPrice, strikePrice, timeToExpiry, r, volatility,
                          optionType)

-----------------------------------------------------------------------------
(* Implied volatility solver.                                               *)

InitialGuess == 20000000          \* 0.2
DefaultMaxIterations == 100
Tolerance == 1                    \* 0.0001 dollar, in tenths of a thousandth
MinSigma == 1000000               \* 0.01
MaxSigma == 500000000             \* 5

\* no call of calculateImpliedVolatility is running
Idle == [i |-> 0, sigma |-> 0, evals |-> 0, exit |-> "idle"]

\* result.price - optionPrice
PriceDiff(result, optionPrice) ==
    IF result.price = NaN \/ optionPrice = NaN \/ optionPrice = Undefined
    THEN NaN
    ELSE result.price - optionPrice

\* Math.abs(priceDiff) < tolerance
Converged(priceDiff) == priceDiff # NaN /\ Abs(priceDiff) * 10 < Tolerance

\* result.vega * 100, in thousandths of a dollar per unit of volatility
VegaPerUnit(result) == IF result.vega = NaN THEN NaN ELSE result.vega * 100

\* sigma - priceDiff / vega for vega # 0
NewtonUpdate(sigma, priceDiff, vega) ==
    IF sigma = NaN \/ priceDiff = NaN \/ vega = NaN
    THEN NaN
    ELSE sigma - FxDivSat[priceDiff, vega]

\* variant: only the upper limit applied
KeepReasonable_NoFloor(sigma) ==
    IF sigma = NaN
    THEN NaN
    ELSE IF sigma > MaxSigma
    THEN MaxSigma
    ELSE sigma

\* variant: a sigma at or below 0 is reset to 0
KeepReasonable_ResetToZero(sigma) ==
    IF sigma = NaN
    THEN NaN
    ELSE IF sigma <= 0
    THEN 0
    ELSE IF sigma > MaxSigma
    THEN MaxSigma
    ELSE sigma

\* if (sigma <= 0) sigma = 0.01; if (sigma > 5) sigma = 5
KeepReasonable(sigma) ==
    IF sigma = NaN
    THEN NaN
    ELSE IF sigma <= 0
    THEN MinSigma
    ELSE IF sigma > MaxSigma
    THEN MaxSigma
    ELSE sigma

\* Math.round(sigma * 10000) / 10000
Round4(sigma) == IF sigma = NaN THEN NaN ELSE RoundTo[sigma, 10000]

\* the iteration limit of a call
\* variant: one more pass than asked for
IterationLimit_OneMore(maxIterations) ==
    (IF maxIterations = Undefined THEN DefaultMaxIterations ELSE maxIterations) + 1

IterationLimit(maxIterations) ==
    IF maxIterations = Undefined THEN DefaultMaxIterations ELSE maxIterations

\* x || d : d replaces a missing x and also the falsy number 0
OrDefault(x, d) == IF x = Undefined \/ x = 0 THEN d ELSE x

\* the kernel call of one iteration, for the arguments a of the tool call:
\* the handler hands on args.riskFreeRate || 0.05
KernelAt(a, sigma) ==
    calculateGreeks(a.spotPrice, a.strikePrice, a.timeToExpiry,
                    OrDefault(a.riskFreeRate, DefaultRate), sigma, a.optionType)

-----------------------------------------------------------------------------
(* Tool handler glue (src/src/etrade/oauth.js).                             *)

DefaultPercent == 2   \* 0.2
ChartSteps == 50

\* new Date(args.positions[0]?.expiry)
FirstExpiry(ps) ==
    IF Len(ps) = 0 \/ ps[1].type = "stock" THEN InvalidDate ELSE ps[1].expiry

-----------------------------------------------------------------------------
(* A request: the caller brings a positions list of its own or composes a  *)
(* named strategy, then evaluates it once.                                 *)

Composers ==
    {"init", "custom", "coveredCall", "bullCallSpread", "bearPutSpread",
     "longStraddle", "ironCondor"}

Init ==
    /\ positions = <<>>
    /\ built = [name |-> "none"]
    /\ op = "init"
    /\ args = <<>>
    /\ ret = <<>>
    /\ iv = Idle

\* the caller brings a positions list of its own (args.positions)
CustomPositions ==
    \E ps \in CustomStrategies :
        /\ op = "init"
        /\ op' = "custom"
        /\ built' = [name |-> "custom"]
        /\ positions' = ps
        /\ args' = <<>>
        /\ ret' = <<>>
        /\ UNCHANGED iv

Compose(name, call, ps) ==
    /\ op = "init"
    /\ op' = name
    /\ built' = call
    /\ positions' = ps
    /\ args' = call
    /\ ret' = ps
    /\ UNCHANGED iv

CoveredCall ==
    \E stockPrice \in Spots, callStrike \in Strikes, callPremium \in Premiums,
       expiry \in Expiries :
        Compose("coveredCall",
                [expiry |-> expiry, stockPrice |-> stockPrice,
                 callStrike |-> callStrike, callPremium |-> callPremium,
                 name |-> "coveredCall"],
                coveredCall(stockPrice, callStrike, callPremium, expiry))

BullCallSpread ==
    \E lowerStrike \in Strikes, lowerPremium \in Premiums,
       upperStrike \in Strikes, upperPremium \in Premiums, expiry \in Expiries :
        Compose("bullCallSpread",
                [expiry |-> expiry, lowerStrike |-> lowerStrike,
                 lowerPremium |-> lowerPremium, upperStrike |-> upperStrike,
                 upperPremium |-> upperPremium, name |-> "bullCallSpread"],
                bullCallSpread(lowerStrike, lowerPremium, upperStrike,
                               upperPremium, expiry))

BearPutSpread ==
    \E lowerStrike \in Strikes, lowerPremium \in Premiums,
       upperStrike \in Strikes, upperPremium \in Premiums, expiry \in Expiries :
        Compose("bearPutSpread",
                [expiry |-> expiry, lowerStrike |-> lowerStrike,
                 lowerPremium |-> lowerPremium, upperStrike |-> upperStrike,
                 upperPremium |-> upperPremium, name |-> "bearPutSpread"],
                bearPutSpread(lowerStrike, lowerPremium, upperStrike,
                              upperPremium, expiry))

IronCondor ==
    \E strikes \in CondorStrikes, putLowerPrem \in CondorPremiums,
       putUpperPrem \in CondorPremiums, callLowerPrem \in CondorPremiums,
       callUpperPrem \in CondorPremiums, expiry \in Expiries :
        Compose("ironCondor",
                [expiry |-> expiry,
                 putLower |-> strikes[1], putLowerPrem |-> putLowerPrem,
                 putUpper |-> strikes[2], putUpperPrem |-> putUpperPrem,
                 callLower |-> strikes[3], callLowerPrem |-> callLowerPrem,
                 callUpper |-> strikes[4], callUpperPrem |-> callUpperPrem,
                 name |-> "ironCondor"],
                ironCondor(strikes[1], putLowerPrem, strikes[2], putUpperPrem,
                           strikes[3], callLowerPrem, strikes[4], callUpperPrem,
                           expiry))

LongStraddle ==
    \E strike \in Strikes, callPremium \in Premiums, putPremium \in Premiums,
       expiry \in Expiries :
        Compose("longStraddle",
                [strike |-> strike, expiry |-> expiry,
                 callPremium |-> callPremium, putPremium |-> putPremium,
                 name |-> "longStraddle"],
                longStraddle(strike, callPremium, putPremium, expiry))

PositionPL ==
    \E i \in 1..Len(positions), stockPrice \in PricePoints, currentDate \in Dates :
        /\ op \in Composers
        /\ op' = "calculatePositionPL"
        /\ args' = [currentDate |-> currentDate, stockPrice |-> stockPrice,
                    position |-> positions[i]]
        /\ ret' = calculatePositionPL(positions[i], stockPrice, currentDate)
        /\ UNCHANGED <<positions, built, iv>>

StrategyPL ==
    \E priceRange \in Grids, currentDate \in Dates :
        /\ op \in Composers
        /\ op' = "calculateStrategyPL"
        /\ args' = [currentDate |-> currentDate, priceRange |-> priceRange]
        /\ ret' = calculateStrategyPL(positions, priceRange, currentDate)
        /\ UNCHANGED <<positions, built, iv>>

Analyze ==
    \E spotPrice \in Spots, expiry \in Dates :
        /\ op \in Composers
        /\ op' = "analyzeStrategy"
        /\ args' = [expiry |-> expiry, spotPrice |-> spotPrice]
        /\ ret' = analyzeStrategy(positions, spotPrice, expiry)
        /\ UNCHANGED <<positions, built, iv>>

\* a stock of 1.00, whose grid step of 0.006 is below one cent
PennyStock == 1000

\* case 'analyze_straddle' of the tool handler: the straddle is composed
\* and analyzed in one call; args.spotPrice may be missing
AnalyzeStraddle ==
    \E strike \in Strikes \cup {PennyStock}, callPremium \in Premiums,
       putPremium \in Premiums,
       spotPrice \in Spots \cup {PennyStock, Undefined}, expiry \in Expiries :
        /\ op = "init"
        /\ op' = "analyze_straddle"
        /\ built' = [strike |-> strike, expiry |-> expiry,
                     callPremium |-> callPremium, putPremium |-> putPremium,
                     name |-> "longStraddle"]
        /\ positions' = longStraddle(strike, callPremium, putPremium, expiry)
        /\ args' = [strike |-> strike, expiry |-> expiry,
                    callPremium |-> callPremium, putPremium |-> putPremium,
                    spotPrice |-> spotPrice]
        /\ ret' = analyzeStrategy(longStraddle(strike, callPremium, putPremium,
                                               expiry),
                                  spotPrice, expiry)
        /\ UNCHANGED iv

\* case 'calculate_pl_chart' of the tool handler
PlChart ==
    \E spotPrice \in Spots, priceRangePercent \in {Undefined, 0, 3} :
        LET priceRange == generatePriceRange(spotPrice,
                              OrDefault(priceRangePercent, DefaultPercent),
                              ChartSteps)
        IN  /\ op \in Composers
            /\ op' = "calculate_pl_chart"
            /\ args' = [spotPrice |-> spotPrice,
                        priceRangePercent |-> priceRangePercent]
            /\ ret' = [priceRange |-> priceRange,
                       plData |-> calculateStrategyPL(positions, priceRange,
                                                      FirstExpiry(positions))]
            /\ UNCHANGED <<positions, built, iv>>

(* The pricing kernel and the solver, called by direct numeric request.    *)

SpotInputs == {100000, 0, -5000}
StrikeInputs == {100000, 200000, 0}
TimeInputs == {0, 0 - Q \div 10, Q \div 10, Q}
RateInputs == {Undefined, 0, DefaultRate}
VolInputs == {Undefined, 0, 0 - InitialGuess, InitialGuess, Q \div 2}

Greeks ==
    \E spotPrice \in SpotInputs, strikePrice \in StrikeInputs,
       timeToExpiry \in TimeInputs, riskFreeRate \in RateInputs,
       volatility \in VolInputs, optionType \in {"call", "put"} :
        /\ op = "init"
        /\ op' = "calculateGreeks"
        /\ args' = [optionType |-> optionType, timeToExpiry |-> timeToExpiry,
                    spotPrice |-> spotPrice, strikePrice |-> strikePrice,
                    riskFreeRate |-> riskFreeRate, volatility |-> volatility]
        /\ ret' = calculateGreeks(spotPrice, strikePrice, timeToExpiry,
                                  riskFreeRate, volatility, optionType)
        /\ UNCHANGED <<positions, built, iv>>

\* volatilities whose kernel price is fed back to the solver
Vols == {Q \div 10, Q \div 2, 19 * (Q \div 10)}
MarketPrices == {10, 10450, 150000, Undefined}
IterationLimits == {Undefined} \cup (0..MaxTries)

\* calculateImpliedVolatility is entered: sigma = 0.2, i = 0
ImpliedVolatility ==
    \E spotPrice \in {100000}, strikePrice \in {100000, 200000},
       timeToExpiry \in {0, Q \div 10, Q}, riskFreeRate \in {Undefined},
       optionType \in {"call", "put"}, volatility \in Vols \cup {Undefined},
       maxIterations \in IterationLimits :
        \E optionPrice \in
              (IF volatility = Undefined
               THEN MarketPrices
               ELSE {calculateGreeks(spotPrice, strikePrice, timeToExpiry,
                                     riskFreeRate, volatility, optionType).price}) :
            /\ op = "init"
            /\ op' = "iv_loop"
            /\ args' = [optionType |-> optionType, timeToExpiry |-> timeToExpiry,
                        spotPrice |-> spotPrice, strikePrice |-> strikePrice,
                        riskFreeRate |-> riskFreeRate, volatility |-> volatility,
                        optionPrice |-> optionPrice, maxIterations |-> maxIterations]
            /\ iv' = [i |-> 0, sigma |-> InitialGuess, evals |-> 0, exit |-> "none"]
            /\ ret' = <<>>
            /\ UNCHANGED <<positions, built>>

\* case 'calculate_greeks' of the tool handler
CalculateGreeksTool ==
    \E spotPrice \in {100000}, strikePrice \in {100000, 200000},
       timeToExpiry \in {0, Q \div 10, Q}, riskFreeRate \in RateInputs,
       volatility \in {InitialGuess, Q \div 2}, optionType \in {"call", "put"} :
        /\ op = "init"
        /\ op' = "calculate_greeks"
        /\ args' = [optionType |-> optionType, timeToExpiry |-> timeToExpiry,
                    spotPrice |-> spotPrice, strikePrice |-> strikePrice,
                    riskFreeRate |-> riskFreeRate, volatility |-> volatility]
        /\ ret' = calculateGreeks(spotPrice, strikePrice, timeToExpiry,
                                  OrDefault(riskFreeRate, DefaultRate),
                                  volatility, optionType)
        /\ UNCHANGED <<positions, built, iv>>

\* case 'calculate_implied_volatility' of the tool handler with a
\* riskFreeRate in the request: the solver is entered, sigma = 0.2, i = 0
ImpliedVolatilityTool ==
    \E spotPrice \in {100000}, strikePrice \in {100000, 200000},
       timeToExpiry \in {Q \div 10, Q}, riskFreeRate \in {0, DefaultRate, 2 * DefaultRate},
       optionType \in {"call", "put"}, optionPrice \in {10, 7970, 10450} :
        /\ op = "init"
        /\ op' = "iv_loop"
        /\ args' = [optionType |-> optionType, timeToExpiry |-> timeToExpiry,
                    spotPrice |-> spotPrice, strikePrice |-> strikePrice,
                    riskFreeRate |-> riskFreeRate, volatility |-> Undefined,
                    optionPrice |-> optionPrice, maxIterations |-> Undefined]
        /\ iv' = [i |-> 0, sigma |-> InitialGuess, evals |-> 0, exit |-> "none"]
        /\ ret' = <<>>
        /\ UNCHANGED <<positions, built>>

\* the solver returns Math.round(sigma * 10000) / 10000, which the tool
\* handler hands on as { impliedVolatility: ... }
IvReturn(sigma, evals, exit) ==
    /\ op' = "calculateImpliedVolatility"
    /\ ret' = [impliedVolatility |-> Round4(sigma)]
    /\ iv' = [i |-> iv.i, sigma |-> sigma, evals |-> evals, exit |-> exit]

\* variant: a zero vega skips the update and the loop goes on
IvStep_GoesOnAtZeroVega(priceDiff, vega) ==
    IF Converged(priceDiff)
    THEN IvReturn(iv.sigma, iv.evals + 1, "converged")
    ELSE /\ iv' = [i |-> iv.i + 1,
                   sigma |-> IF vega = 0 THEN iv.sigma
                             ELSE KeepReasonable(NewtonUpdate(iv.sigma, priceDiff, vega)),
                   evals |-> iv.evals + 1, exit |-> "none"]
         /\ UNCHANGED <<op, ret>>

\* lines 344-356: return, give up or move sigma
IvStep(priceDiff, vega) ==
    IF Converged(priceDiff)
    THEN IvReturn(iv.sigma, iv.evals + 1, "converged")
    ELSE IF vega = 0
    THEN IvReturn(iv.sigma, iv.evals + 1, "break")
    ELSE /\ iv' = [i |-> iv.i + 1,
                   sigma |-> KeepReasonable(NewtonUpdate(iv.sigma, priceDiff, vega)),
                   evals |-> iv.evals + 1, exit |-> "none"]
         /\ UNCHANGED <<op, ret>>

\* one pass of the loop body
IvIterate ==
    /\ op = "iv_loop"
    /\ iv.i < IterationLimit(args.maxIterations)
    /\ \E result \in {KernelAt(args, iv.sigma)} :
          IvStep(PriceDiff(result, args.optionPrice), VegaPerUnit(result))
    /\ UNCHANGED <<positions, built, args>>

\* the loop condition fails: the return after the loop
IvExhausted ==
    /\ op = "iv_loop"
    /\ iv.i >= IterationLimit(args.maxIterations)
    /\ IvReturn(iv.sigma, iv.evals, "exhausted")
    /\ UNCHANGED <<positions, built, args>>

NextPricing == Greeks \/ ImpliedVolatility \/ IvIterate \/ IvExhausted

SpecPricing == Init /\ [][NextPricing]_vars

\* a call of the solver that has started runs to its return
\* the three tools that fall back to a default, called through the handler
NextTools ==
    \/ CustomPositions
    \/ PlChart
    \/ CalculateGreeksTool
    \/ ImpliedVolatilityTool
    \/ IvIterate
    \/ IvExhausted

SpecTools == Init /\ [][NextTools]_vars

SpecPricingFair ==
    Init /\ [][NextPricing]_vars /\ WF_vars(IvIterate) /\ WF_vars(IvExhausted)

Next ==
    \/ CustomPositions
    \/ CoveredCall
    \/ BullCallSpread
    \/ BearPutSpread
    \/ LongStraddle
    \/ IronCondor
    \/ Analyze
    \/ AnalyzeStraddle

Spec == Init /\ [][Next]_vars

NextPayoff == CustomPositions \/ PositionPL \/ StrategyPL \/ PlChart

SpecPayoff == Init /\ [][NextPayoff]_vars

(* generatePriceRange on its own.                                          *)

Centers == Spots \cup {1000}
PercentRanges == 0..9
StepCounts == (0..MaxSteps) \cup {ChartSteps, AnalyzeSteps}

PriceRange ==
    \E centerPrice \in Centers, percentRange \in PercentRanges, steps \in StepCounts :
        /\ op = "init"
        /\ op' = "generatePriceRange"
        /\ args' = [centerPrice |-> centerPrice, percentRange |-> percentRange,
                    steps |-> steps]
        /\ ret' = generatePriceRange(centerPrice, percentRange, steps)
        /\ UNCHANGED <<positions, built, iv>>

NextRange == PriceRange

SpecRange == Init /\ [][NextRange]_vars

-----------------------------------------------------------------------------
(* The server's tool-call handler (src/src/index.js).                       *)
(*                                                                          *)
(* op follows one request: "CallToolRequest" when the handler is entered,   *)
(* "handleToolCall" while the tool runs, "apiGet" while a brokerage request *)
(* is in flight, "response" when the handler has returned.                  *)

\* the cases of handleToolCall that call the brokerage client
BrokerageTools ==
    {"get_options_chain", "get_option_expiries", "get_quote", "get_accounts",
     "get_positions"}

\* the cases of handleToolCall that only compute
AnalysisTools ==
    {"calculate_greeks", "calculate_implied_volatility", "analyze_covered_call",
     "analyze_vertical_spread", "analyze_iron_condor", "analyze_straddle",
     "calculate_pl_chart"}

\* names a request may carry, one of them unknown to handleToolCall
ToolNames == BrokerageTools \cup AnalysisTools \cup {"no_such_tool"}

\* ETRADE_CONFIG.accessToken and .accessTokenSecret, "" when not configured
AccessTokens == {"", "token"}
AccessTokenSecrets == {"", "secret"}

\* ETRADE_CONFIG.accessToken && ETRADE_CONFIG.accessTokenSecret
hasValidAccessToken(a) == a.accessToken # "" /\ a.accessTokenSecret # ""

\* variant: get_positions is not in the list
etradeTools_NoPositions ==
    {"get_options_chain", "get_option_expiries", "get_quote", "get_accounts"}

\* const etradeTools of the handler
etradeTools ==
    {"get_options_chain", "get_option_expiries", "get_quote", "get_accounts",
     "get_positions"}

\* every case but get_accounts reads a property of args
ReadsArguments(name) == name # "get_accounts"

\* what handleToolCall can throw for the request a, at position at
Thrown(a, at) ==
    IF at = "apiGet"
    THEN {"request failed"}
    ELSE IF a.name \notin BrokerageTools \cup AnalysisTools
    THEN {"Unknown tool"}
    ELSE IF a.arguments = "missing" /\ ReadsArguments(a.name)
    THEN {"TypeError"}
    ELSE IF a.name \in BrokerageTools
    THEN IF hasValidAccessToken(a)
         THEN {}
         ELSE {"Not authenticated. Run: npm run auth"}
    ELSE IF a.name = "calculate_pl_chart"
    THEN {"TypeError"}     \* args.positions missing
    ELSE {}

\* the handler is entered with request.params
CallToolRequest ==
    \E name \in ToolNames, arguments \in {"missing", "given"},
       accessToken \in AccessTokens, accessTokenSecret \in AccessTokenSecrets :
        /\ op = "init"
        /\ op' = "CallToolRequest"
        /\ args' = [name |-> name, accessToken |-> accessToken,
                    accessTokenSecret |-> accessTokenSecret,
                    arguments |-> arguments]
        /\ ret' = <<>>
        /\ UNCHANGED <<positions, built, iv>>

\* lines 44-56: a brokerage tool without both tokens
NotAuthenticated ==
    /\ op = "CallToolRequest"
    /\ args.name \in etradeTools /\ ~ hasValidAccessToken(args)
    /\ op' = "response"
    /\ ret' = [error |-> "Not authenticated with E*TRADE"]
    /\ UNCHANGED <<positions, built, args, iv>>

\* line 58: handleToolCall(name, args) is called
HandleToolCall ==
    /\ op = "CallToolRequest"
    /\ ~ (args.name \in etradeTools /\ ~ hasValidAccessToken(args))
    /\ op' = "handleToolCall"
    /\ UNCHANGED <<positions, built, args, ret, iv>>

\* ETradeClient.request: the request goes out when both tokens are there
BrokerageRequest ==
    /\ op = "handleToolCall"
    /\ args.name \in BrokerageTools
    /\ args.arguments = "given" \/ ~ ReadsArguments(args.name)
    /\ hasValidAccessToken(args)
    /\ op' = "apiGet"
    /\ UNCHANGED <<positions, built, args, ret, iv>>

\* lines 58-67: the tool's result is returned as text
ToolReturns ==
    /\ \/ op = "apiGet"
       \/ /\ op = "handleToolCall"
          /\ args.name \in AnalysisTools
          /\ args.arguments = "given"
    /\ op' = "response"
    /\ ret' = [result |-> args.name]
    /\ UNCHANGED <<positions, built, args, iv>>

\* lines 68-82: whatever was thrown is returned with isError
ToolThrows ==
    /\ op \in {"handleToolCall", "apiGet"}
    /\ \E message \in Thrown(args, op) :
          ret' = [error |-> message, isError |-> TRUE, tool |-> args.name]
    /\ op' = "response"
    /\ UNCHANGED <<positions, built, args, iv>>

NextServer ==
    \/ CallToolRequest
    \/ NotAuthenticated
    \/ HandleToolCall
    \/ BrokerageRequest
    \/ ToolReturns
    \/ ToolThrows

SpecServer == Init /\ [][NextServer]_vars

\* the handler runs on, and a tool that was called settles
SpecServerFair ==
    Init /\ [][NextServer]_vars
         /\ WF_vars(NotAuthenticated) /\ WF_vars(HandleToolCall)
         /\ WF_vars(BrokerageRequest) /\ WF_vars(ToolReturns \/ ToolThrows)

-----------------------------------------------------------------------------
(* Properties.                                                              *)

\* r is x rounded to the nearest cent, a tie going up
IsRound2Of(r, x) == r % 10 = 0 /\ x - 5 < r /\ r <= x + 5

\* r is the quotient num / den rounded to the nearest cent, a tie going up
IsRound2OfQuot(r, num, den) ==
    r % 10 = 0 /\ num - 5 * den < r * den /\ r * den <= num + 5 * den

\* the sum of calculatePositionPL over the legs of ps, from the front
RECURSIVE LegSum(_, _, _)
LegSum(ps, price, date) ==
    IF ps = <<>>
    THEN 0
    ELSE calculatePositionPL(Head(ps), price, date) + LegSum(Tail(ps), price, date)

\* C1: position_pl returns (price - premium) * quantity for a stock leg, with
\* no multiplier, and (intrinsic - premium) * quantity * 100 for an option leg,
\* intrinsic being max(0, price - strike) for a call and max(0, strike - price)
\* for a put, for every price and every signed quantity.
C1_MultiplierOnOptionsOnly ==
    op = "calculatePositionPL" =>
        LET p == args.position
            price == args.stockPrice
        IN  IF p.type = "stock"
            THEN ret = (price - p.premium) * p.quantity
            ELSE LET intrinsic == IF p.optionType = "call"
                                  THEN (IF price > p.strike THEN price - p.strike ELSE 0)
                                  ELSE (IF p.strike > price THEN p.strike - price ELSE 0)
                 IN  ret = (intrinsic - p.premium) * p.quantity * 100

\* a short option leg valued in the money
C1_Witness ==
    /\ op = "calculatePositionPL"
    /\ args.position.type = "option"
    /\ args.position.quantity < 0
    /\ args.position.optionType = "call"
    /\ args.stockPrice > args.position.strike
    /\ ret = (args.stockPrice - args.position.strike - args.position.premium)
                * args.position.quantity * 100

\* C2: for an option leg and a price, position_pl returns the same value for
\* every asOfDate (before, at or after expiry, or no date at all) and every
\* expiry: the path for T = 0 and the path for T > 0 agree.
C2_SameValueAtEveryDate ==
    (op = "calculatePositionPL" /\ args.position.type = "option") =>
        \A e \in Dates, d \in Dates :
            calculatePositionPL([args.position EXCEPT !.expiry = e],
                                args.stockPrice, d) = ret

\* an option leg valued before its expiry, in the money
C2_Witness ==
    /\ op = "calculatePositionPL"
    /\ args.position.type = "option"
    /\ args.currentDate # InvalidDate
    /\ args.position.expiry > args.currentDate
    /\ IntrinsicValue(args.position.optionType, args.position.strike,
                      args.stockPrice) > 0

\* points is the payoff curve of the held strategy over grid at date
IsCurveOf(points, grid, date) ==
    /\ DOMAIN points = 1..Len(grid)
    /\ \A i \in 1..Len(grid) :
          /\ points[i].price = grid[i]
          /\ IsRound2Of(points[i].pl, LegSum(positions, grid[i], date))

\* C3: strategy_pl returns one point per grid price, in grid order, point i
\* carrying grid price i unchanged and the sum of position_pl over all legs at
\* that price rounded to 2 decimals; the output is as long as the grid.
C3_OnePointPerGridPrice ==
    /\ op = "calculateStrategyPL" =>
          /\ Len(ret) = Len(args.priceRange)
          /\ IsCurveOf(ret, args.priceRange, args.currentDate)
    /\ op = "calculate_pl_chart" =>
          /\ Len(ret.plData) = Len(ret.priceRange)
          /\ IsCurveOf(ret.plData, ret.priceRange, FirstExpiry(positions))

\* two legs over a grid of two different prices, one total needing rounding
C3_Witness ==
    /\ op = "calculateStrategyPL"
    /\ Len(positions) = 2
    /\ Len(ret) = 2
    /\ ret[1].price > ret[2].price
    /\ LegSum(positions, args.priceRange[1], args.currentDate) % 10 # 0
    /\ ret[1].pl # ret[2].pl

\* C4: generatePriceRange(C, f, n) with C > 0, 0 <= f < 1, n >= 1 returns n + 1
\* prices, each rounded to 2 decimals, in non-decreasing order, the first being
\* C * (1 - f) rounded, the last C * (1 + f) rounded and element i being
\* C * (1 - f) + i * (2 * C * f / n) rounded; generatePriceRange(100, 0.2, 50)
\* has 51 points, the first 80.00 and the last 120.00.
C4_GridShape ==
    (op = "generatePriceRange" /\ args.steps >= 1) =>
        LET C == args.centerPrice
            f == args.percentRange
            n == args.steps
        IN  /\ Len(ret) = n + 1
            /\ \A i \in 0..n :
                  IsRound2OfQuot(ret[i + 1], C * ((10 - f) * n + 2 * i * f), 10 * n)
            /\ \A i \in 1..n : ret[i] <= ret[i + 1]
            /\ IsRound2OfQuot(ret[1], C * (10 - f), 10)
            /\ IsRound2OfQuot(ret[n + 1], C * (10 + f), 10)
            /\ (C = 100000 /\ f = 2 /\ n = 50) =>
                  (Len(ret) = 51 /\ ret[1] = 80000 /\ ret[51] = 120000)

\* generatePriceRange(100, 0.2, 50)
C4_Witness ==
    /\ op = "generatePriceRange"
    /\ args.centerPrice = 100000 /\ args.percentRange = 2 /\ args.steps = 50
    /\ Len(ret) = 51
    /\ ret[2] = 80800

\* C5: analyze evaluates the strategy on the grid spot * 0.7 .. spot * 1.3
\* in 100 steps (101 points); maxProfit and maxLoss are the maximum and the
\* minimum pl of that curve: every point lies between them and each is
\* attained by some point.
C5_ExtremesOfTheCurve ==
    op = "analyzeStrategy" =>
        LET pd == ret.plData
        IN  /\ Len(pd) = 101
            /\ \A i \in 0..100 :
                  /\ IsRound2OfQuot(pd[i + 1].price, args.spotPrice * (700 + 6 * i), 1000)
                  /\ IsRound2Of(pd[i + 1].pl,
                                LegSum(positions, pd[i + 1].price, args.expiry))
            /\ \A i \in 1..Len(pd) : ret.maxLoss <= pd[i].pl /\ pd[i].pl <= ret.maxProfit
            /\ \E i \in 1..Len(pd) : pd[i].pl = ret.maxProfit
            /\ \E i \in 1..Len(pd) : pd[i].pl = ret.maxLoss

\* an analysis whose curve runs from a loss to a profit
C5_Witness ==
    /\ op = "analyzeStrategy"
    /\ ret.maxLoss < 0 /\ 0 < ret.maxProfit
    /\ ret.plData[1].pl # ret.plData[101].pl

\* the pl changes sign between the points i - 1 and i of the curve pd
Crossing(pd, i) ==
    /\ i >= 2
    /\ \/ pd[i - 1].pl < 0 /\ pd[i].pl >= 0
       \/ pd[i - 1].pl > 0 /\ pd[i].pl <= 0

\* C6: analyze reports a breakeven at grid index i >= 1 exactly when the pl at
\* i - 1 is strictly negative and the pl at i is >= 0, or the pl at i - 1 is
\* strictly positive and the pl at i is <= 0; the price reported is that of
\* the later point i, nothing else is reported, and a pl of exactly 0 at a
\* grid point between two signs is reported once.
C6_BreakevenAtLaterPoint ==
    op = "analyzeStrategy" =>
        LET pd == ret.plData
            bp == ret.breakevenPoints
            idx == {i \in 1..Len(pd) : Crossing(pd, i)}
        IN  /\ Len(bp) = Cardinality(idx)
            /\ \A i \in idx : bp[Cardinality({k \in idx : k <= i})] = pd[i].price
            /\ \A i \in 2..(Len(pd) - 1) :
                  (/\ pd[i].pl = 0
                   /\ \/ pd[i - 1].pl < 0 /\ pd[i + 1].pl > 0
                      \/ pd[i - 1].pl > 0 /\ pd[i + 1].pl < 0)
                  => (i \in idx /\ (i + 1) \notin idx)

\* a pl of exactly 0 at a grid point between a loss and a profit
C6_Witness ==
    /\ op = "analyzeStrategy"
    /\ Len(ret.breakevenPoints) = 1
    /\ \E i \in 2..100 :
          /\ ret.plData[i - 1].pl < 0
          /\ ret.plData[i].pl = 0
          /\ ret.plData[i + 1].pl > 0
          /\ ret.breakevenPoints[1] = ret.plData[i].price

\* the sum of premium * quantity * 100 over the legs of ps with index in S
RECURSIVE PremiumOver(_, _)
PremiumOver(ps, S) ==
    IF S = {}
    THEN 0
    ELSE LET k == CHOOSE k \in S : TRUE
         IN  ps[k].premium * ps[k].quantity * 100 + PremiumOver(ps, S \ {k})

OptionLegsOf(ps) == {k \in 1..Len(ps) : ps[k].type = "option"}

\* C7: netPremium is the sum over option legs only of premium * quantity * 100,
\* rounded to 2 decimals: positive when the long premiums exceed the short
\* ones, negative when the short premiums exceed the long ones; stock legs
\* contribute nothing.
C7_NetPremiumOverOptionLegs ==
    op = "analyzeStrategy" =>
        LET long == {k \in OptionLegsOf(positions) : positions[k].quantity > 0}
            short == {k \in OptionLegsOf(positions) : positions[k].quantity < 0}
            paid == PremiumOver(positions, long)
            received == 0 - PremiumOver(positions, short)
        IN  /\ IsRound2Of(ret.netPremium, PremiumOver(positions, OptionLegsOf(positions)))
            /\ paid > received => ret.netPremium > 0
            /\ received > paid => ret.netPremium < 0

\* a strategy with a stock leg and a net credit from its option legs
C7_Witness ==
    /\ op = "analyzeStrategy"
    /\ \E k \in 1..Len(positions) :
          positions[k].type = "stock" /\ positions[k].premium * positions[k].quantity # 0
    /\ OptionLegsOf(positions) # {}
    /\ ret.netPremium < 0

\* bullCallSpread(100, 5, 110, 2, expiry)
BullCallSpread_100_5_110_2 ==
    /\ built.name = "bullCallSpread"
    /\ built.lowerStrike = 100000 /\ built.lowerPremium = 5000
    /\ built.upperStrike = 110000 /\ built.upperPremium = 2000

\* C8 as stated: for bullCallSpread(100, 5, 110, 2, expiry) analyze reports a
\* netPremium of -300.
C8_NetPremiumMinus300 ==
    (op = "analyzeStrategy" /\ BullCallSpread_100_5_110_2) => ret.netPremium = -300000

\* C8: for bullCallSpread(100, 5, 110, 2, expiry) analyze reports a netPremium
\* of +300, that is (5 - 2) * 100, the net debit.
C8_NetPremiumPlus300 ==
    (op = "analyzeStrategy" /\ BullCallSpread_100_5_110_2) => ret.netPremium = 300000

\* that spread, analyzed at its own expiry
C8_Witness ==
    /\ op = "analyzeStrategy"
    /\ BullCallSpread_100_5_110_2
    /\ args.expiry = built.expiry
    /\ args.spotPrice = 100000

\* b is the first price of the curve pd that is at or above x
FirstAtOrAbove(pd, b, x) ==
    \E i \in 2..Len(pd) :
        pd[i].price = b /\ pd[i - 1].price < x /\ x <= pd[i].price

\* a bull call spread L < U analyzed on a grid with prices <= L and >= U
C9_Case ==
    /\ op = "analyzeStrategy"
    /\ built.name = "bullCallSpread"
    /\ built.lowerStrike < built.upperStrike
    /\ ret.plData[1].price <= built.lowerStrike
    /\ ret.plData[Len(ret.plData)].price >= built.upperStrike

C9_Debit == built.lowerPremium - built.upperPremium

\* the pl is flat at and below L and at and above U, and these are the extremes
C9_FlatEnds ==
    LET low == (0 - C9_Debit) * 100
        high == ((built.upperStrike - built.lowerStrike) - C9_Debit) * 100
    IN  /\ \A i \in 1..Len(ret.plData) :
              /\ ret.plData[i].price <= built.lowerStrike => ret.plData[i].pl = low
              /\ ret.plData[i].price >= built.upperStrike => ret.plData[i].pl = high
        /\ ret.maxLoss = low
        /\ ret.maxProfit = high

C9_OneBreakeven ==
    /\ Len(ret.breakevenPoints) = 1
    /\ FirstAtOrAbove(ret.plData, ret.breakevenPoints[1],
                      built.lowerStrike + C9_Debit)

\* C9 as stated: for any bull call spread L < U with premiums pL, pU on a grid
\* with prices <= L and >= U, the pl is -(pL - pU) * 100 at every price <= L and
\* ((U - L) - (pL - pU)) * 100 at every price >= U, these are maxLoss and
\* maxProfit, and exactly one breakeven is reported, within one grid step above
\* L + (pL - pU).
C9_AnyPremiums == C9_Case => (C9_FlatEnds /\ C9_OneBreakeven)

\* C9: the same, the single breakeven being reported when the net debit
\* pL - pU is positive and at most U - L.
C9_DebitWithinWidth ==
    C9_Case =>
        /\ C9_FlatEnds
        /\ (0 < C9_Debit /\ C9_Debit <= built.upperStrike - built.lowerStrike)
              => C9_OneBreakeven

\* L = 100, pL = 5, U = 110, pU = 2 at spot 100: -300, 700, breakeven 103
C9_Witness ==
    /\ C9_Case
    /\ BullCallSpread_100_5_110_2
    /\ ret.maxLoss = -300000
    /\ ret.maxProfit = 700000
    /\ ret.breakevenPoints = <<103000>>

C10_Cost == built.callPremium + built.putPremium

\* a long straddle with c + p > 0 on a grid reaching below K - (c + p) and
\* above K + (c + p)
C10_Case ==
    /\ op = "analyzeStrategy"
    /\ built.name = "longStraddle"
    /\ C10_Cost > 0
    /\ ret.plData[1].price < built.strike - C10_Cost
    /\ ret.plData[Len(ret.plData)].price > built.strike + C10_Cost

C10_TwoBreakevens ==
    /\ Len(ret.breakevenPoints) = 2
    /\ ret.breakevenPoints[1] < built.strike
    /\ ret.breakevenPoints[2] > built.strike
    /\ FirstAtOrAbove(ret.plData, ret.breakevenPoints[1], built.strike - C10_Cost)
    /\ FirstAtOrAbove(ret.plData, ret.breakevenPoints[2], built.strike + C10_Cost)

\* C10 as stated: for a long straddle (K, c, p) on such a grid analyze reports
\* exactly two breakevens, the first strictly below K and the second strictly
\* above K, each within one grid step of K - (c + p) and K + (c + p).
C10_AnyGrid == C10_Case => C10_TwoBreakevens

\* C10: the same, for grids none of whose steps is wider than c + p.
C10_StepWithinCost ==
    (/\ C10_Case
     /\ \A i \in 2..Len(ret.plData) :
           ret.plData[i].price - ret.plData[i - 1].price <= C10_Cost)
    => C10_TwoBreakevens

\* K = 50, c = 3, p = 2 at spot 50: breakevens at 45.20 and 55.10
C10_Witness ==
    /\ C10_Case
    /\ built.strike = 50000 /\ built.callPremium = 3000 /\ built.putPremium = 2000
    /\ args.spotPrice = 50000
    /\ ret.breakevenPoints = <<45200, 55100>>

\* an iron condor whose two short premiums together exceed its two long ones
C11_Case ==
    /\ op = "analyzeStrategy"
    /\ built.name = "ironCondor"
    /\ built.putUpperPrem + built.callLowerPrem
          > built.putLowerPrem + built.callUpperPrem

\* C11: for every iron condor built by ironCondor whose short-leg premiums
\* (upper put, lower call) together strictly exceed its long-leg premiums
\* (lower put, upper call), analyze reports a strictly negative netPremium.
C11_CreditIsNegative == C11_Case => ret.netPremium < 0

\* a condor taking in 2 + 5 and paying 0.10 + 0.10: a credit of 680
C11_Witness ==
    /\ C11_Case
    /\ built.putLowerPrem = 100 /\ built.putUpperPrem = 2000
    /\ built.callLowerPrem = 1000 * MaxPremium /\ built.callUpperPrem = 100
    /\ ret.netPremium = 0 - (1800 + 1000 * MaxPremium) * 100

\* calculateGreeks has returned for an option at or past its expiry
C12_Case == op = "calculateGreeks" /\ args.timeToExpiry <= 0

\* C12: for every input with T <= 0, calculateGreeks returns the intrinsic
\* value as price (max(0, S - K) for a call, max(0, K - S) for a put), delta
\* 1 for a call with S > K, -1 for a put with S < K and 0 otherwise (S = K
\* included), and gamma = theta = vega = rho = 0, whatever the volatility
\* (0, negative or missing included).
C12_ExpiredValues ==
    C12_Case =>
        /\ ret.price = (IF args.optionType = "call"
                        THEN Max(0, args.spotPrice - args.strikePrice)
                        ELSE Max(0, args.strikePrice - args.spotPrice))
        /\ ret.delta = (IF args.optionType = "call" /\ args.spotPrice > args.strikePrice
                        THEN 1000
                        ELSE IF args.optionType = "put" /\ args.spotPrice < args.strikePrice
                        THEN -1000
                        ELSE 0)
        /\ ret.gamma = 0 /\ ret.theta = 0 /\ ret.vega = 0 /\ ret.rho = 0

\* an expired call exactly at the money, priced without a volatility
C12_Witness ==
    /\ C12_Case
    /\ args.optionType = "call"
    /\ args.spotPrice = 100000 /\ args.strikePrice = 100000
    /\ args.timeToExpiry = 0 /\ args.volatility = Undefined
    /\ ret.price = 0 /\ ret.delta = 0

\* calculateGreeks has returned from a call outside the kernel's domain
C13_Case ==
    /\ op = "calculateGreeks"
    /\ \/ (args.volatility # Undefined /\ args.volatility <= 0
              /\ args.timeToExpiry > 0)
       \/ args.spotPrice <= 0
       \/ args.strikePrice <= 0

\* C13: whenever calculateGreeks is called with volatility <= 0 together
\* with T > 0, or with a non-positive spot price or strike, it raises a
\* domain error and returns no Greeks record.
C13_NoRecord == C13_Case => "price" \notin DOMAIN ret

\* calculateStrategyPL has returned from a call with an empty price grid or
\* with a strategy of no legs
C14_Case ==
    /\ op = "calculateStrategyPL"
    /\ (Len(args.priceRange) = 0 \/ Len(positions) = 0)

\* C14: given an empty price grid or a strategy with fewer than 1 leg, the
\* strategy operations fail with a domain error and produce no output:
\* calculateStrategyPL never returns a curve (a sequence with one point for
\* each grid price) for such inputs.
C14_NoCurve ==
    C14_Case =>
        ~ /\ Len(ret) = Len(args.priceRange)
          /\ \A i \in 1..Len(ret) : ret[i].price = args.priceRange[i]

C15_Running == op = "iv_loop"

C15_Returned == op = "calculateImpliedVolatility"

\* maxIterations of the call, 100 when the caller gives none
C15_Limit ==
    IF args.maxIterations = Undefined THEN DefaultMaxIterations
    ELSE args.maxIterations

\* the kernel has been evaluated at most maxIterations times; a return is a
\* value, a number whenever the market price is one; after the loop has run
\* out the value is the last sigma rounded to 4 decimals
C15_Within ==
    (C15_Running \/ C15_Returned) =>
        /\ iv.evals <= C15_Limit
        /\ C15_Returned =>
              /\ args.optionPrice # Undefined =>
                    (ret.impliedVolatility # NaN /\ ret.impliedVolatility > 0)
              /\ iv.exit = "exhausted" =>
                    /\ iv.evals = C15_Limit
                    /\ iv.sigma # NaN =>
                          ret.impliedVolatility
                              = 10000 * ((iv.sigma + 5000) \div 10000)

\* C15: calculateImpliedVolatility always terminates, after at most
\* maxIterations evaluations of the pricing kernel, and always returns a
\* value without raising an error; when the loop runs out of iterations
\* without meeting the tolerance it returns the last sigma rounded to 4
\* decimals.
C15_Terminates == []C15_Within /\ (C15_Running ~> C15_Returned)

\* two iterations allowed, both used, the tolerance not met
C15_Witness ==
    /\ C15_Returned
    /\ iv.exit = "exhausted"
    /\ args.maxIterations = 2 /\ iv.evals = 2
    /\ args.volatility = 19 * (Q \div 10) /\ args.timeToExpiry = Q
    /\ ret.impliedVolatility # args.volatility

\* the solver, given a market price that is a number, has updated sigma at
\* least once: sigma is held for the next iteration or has been returned
C16_Case ==
    /\ (op = "iv_loop" \/ op = "calculateImpliedVolatility")
    /\ args.optionPrice # Undefined
    /\ iv.i > 0

\* C16 as stated: after every Newton update sigma lies in (0.01, 5], so
\* every sigma held at the start of the next iteration or returned after an
\* update satisfies 0.01 < sigma <= 5.
C16_AboveFloor ==
    C16_Case => (MinSigma < iv.sigma /\ iv.sigma <= MaxSigma)

\* C16: after every Newton update sigma lies in (0, 5]: an updated value at
\* or below 0 becomes exactly 0.01, a value above 5 becomes 5, and a value
\* in (0, 0.01] is kept as it is; it is a number, and what is returned after
\* an update is that sigma rounded to 4 decimals.
C16_PositiveUpTo5 ==
    C16_Case =>
        /\ iv.sigma # NaN
        /\ 0 < iv.sigma /\ iv.sigma <= MaxSigma
        /\ op = "calculateImpliedVolatility" =>
              /\ 0 <= ret.impliedVolatility
              /\ ret.impliedVolatility <= MaxSigma

\* a market price of 0.01 for an option worth 10.45 at sigma 0.2: the update
\* falls below 0 and sigma is set to exactly 0.01
C16_Witness ==
    /\ C16_Case
    /\ args.optionPrice = 10
    /\ args.strikePrice = 100000 /\ args.timeToExpiry = Q
    /\ iv.i = 1
    /\ iv.sigma = MinSigma

\* the solver has returned from a call with its default iteration limit,
\* given the price the kernel computes for an unexpired option at a
\* volatility in (0.05, 2)
C17_Case ==
    /\ op = "calculateImpliedVolatility"
    /\ args.maxIterations = Undefined
    /\ args.timeToExpiry > 0
    /\ args.volatility # Undefined
    /\ 5 * (Q \div 100) < args.volatility /\ args.volatility < 2 * Q

\* C17: calculateImpliedVolatility inverts calculateGreeks: for every valid
\* option with sigma in (0.05, 2), feeding the kernel's price for it back
\* into the solver (same S, K, T, r, kind) returns a volatility equal to
\* the original sigma within the tolerance of 0.0001.
C17_RoundTrip ==
    C17_Case =>
        /\ ret.impliedVolatility # NaN
        /\ Abs(ret.impliedVolatility - args.volatility) <= 10000

\* leg is the option leg of the given kind, strike, premium and quantity
C18_IsLeg(leg, optionType, strike, premium, quantity) ==
    /\ leg.type = "option"
    /\ leg.optionType = optionType
    /\ leg.strike = strike
    /\ leg.premium = premium
    /\ leg.quantity = quantity
    /\ leg.expiry = args.expiry

\* C18: given the same (lowerStrike, lowerPremium, upperStrike,
\* upperPremium), bullCallSpread returns [long call at lowerStrike with
\* lowerPremium, short call at upperStrike with upperPremium] and
\* bearPutSpread returns [long put at upperStrike with upperPremium, short
\* put at lowerStrike with lowerPremium]: two legs over the same two
\* strikes, each strike keeping its own premium, the long leg first.
C18_VerticalSpreads ==
    /\ op = "bullCallSpread" =>
          /\ Len(ret) = 2
          /\ C18_IsLeg(ret[1], "call", args.lowerStrike, args.lowerPremium, 1)
          /\ C18_IsLeg(ret[2], "call", args.upperStrike, args.upperPremium, -1)
    /\ op = "bearPutSpread" =>
          /\ Len(ret) = 2
          /\ C18_IsLeg(ret[1], "put", args.upperStrike, args.upperPremium, 1)
          /\ C18_IsLeg(ret[2], "put", args.lowerStrike, args.lowerPremium, -1)

\* bearPutSpread(100, 2, 110, 5): long the 110 put at 5, short the 100 put at 2
C18_Witness ==
    /\ op = "bearPutSpread"
    /\ args.lowerStrike = 100000 /\ args.lowerPremium = 2000
    /\ args.upperStrike = 110000 /\ args.upperPremium = 5000
    /\ ret[1].strike = 110000 /\ ret[1].premium = 5000 /\ ret[1].quantity = 1
    /\ ret[2].strike = 100000 /\ ret[2].premium = 2000 /\ ret[2].quantity = -1

\* the loop is about to evaluate the kernel at the current sigma, where the
\* vega is exactly 0 and the price is not within the tolerance of the
\* market price
C19_ZeroVega ==
    /\ op = "iv_loop"
    /\ iv.i < C15_Limit
    /\ KernelAt(args, iv.sigma).vega = 0
    /\ \/ args.optionPrice = Undefined
       \/ Abs(KernelAt(args, iv.sigma).price - args.optionPrice) * 10 >= Tolerance

\* C19: whenever the kernel's vega at the current sigma is exactly 0 and the
\* price difference is not within the tolerance, the solver stops in that
\* iteration without updating sigma and returns the current sigma (rounded
\* to 4 decimals, as every return is); after the return no further kernel
\* evaluation happens, and sigma is never divided by a zero vega.
C19_StopsAtZeroVega ==
    /\ [][C19_ZeroVega =>
            /\ op' = "calculateImpliedVolatility"
            /\ iv'.sigma = iv.sigma
            /\ iv'.i = iv.i
            /\ iv'.evals = iv.evals + 1
            /\ ret'.impliedVolatility = 10000 * ((iv.sigma + 5000) \div 10000)]_vars
    /\ [][op # "calculateImpliedVolatility"]_vars

\* a market price of 0.01: sigma is set to 0.01 by the first update, the
\* vega there is 0, and 0.01 is returned after the second evaluation
C19_Witness ==
    /\ op = "calculateImpliedVolatility"
    /\ iv.exit = "break"
    /\ args.optionPrice = 10 /\ args.strikePrice = 100000
    /\ args.timeToExpiry = Q /\ args.maxIterations = Undefined
    /\ iv.i = 1 /\ iv.evals = 2
    /\ iv.sigma = MinSigma
    /\ ret.impliedVolatility = MinSigma

\* analyze has returned, called on its own or by the straddle handler
C20_Analyzed == op \in {"analyzeStrategy", "analyze_straddle"}

\* no pl of the curve pd compared greater, or less, than anything: the
\* scanned extremes still hold the values they were initialized with
C20_Untouched(pd) == \A i \in 1..Len(pd) : pd[i].pl = NaN

\* C20: analyze reports maxProfit (respectively maxLoss) as the numeric
\* extreme found on the grid, and reports the unbounded marker for it exactly
\* when the scanned extreme still equals the infinity it was initialized with
\* before the scan; over a grid with at least one finite pl both values are
\* numeric, also for a strategy of unlimited profit.
C20_MarkerAtInitialSentinel ==
    C20_Analyzed =>
        /\ (ret.maxProfit = Unlimited) <=> C20_Untouched(ret.plData)
        /\ (ret.maxLoss = Unlimited) <=> C20_Untouched(ret.plData)
        /\ (~ C20_Untouched(ret.plData)) =>
              /\ ret.maxProfit \notin {Unlimited, NaN, Infinity, NegInfinity}
              /\ ret.maxLoss \notin {Unlimited, NaN, Infinity, NegInfinity}
              /\ \A i \in 1..Len(ret.plData) :
                    ret.maxLoss <= ret.plData[i].pl /\ ret.plData[i].pl <= ret.maxProfit

\* what the code reports when the extremes were never touched
C20_SentinelsReported ==
    (C20_Analyzed /\ C20_Untouched(ret.plData)) =>
        ret.maxProfit = NegInfinity /\ ret.maxLoss = Infinity

\* C21: the breakevenPoints list returned by analyze never contains the same
\* price twice and is ordered in the direction of the grid, strictly
\* increasing for a spot > 0, also when rounding to 2 decimals makes adjacent
\* grid prices equal: two detections never report the same rounded price.
C21_NoPriceTwice ==
    (C20_Analyzed /\ args.spotPrice # Undefined /\ args.spotPrice > 0) =>
        /\ \A j \in 1..(Len(ret.breakevenPoints) - 1) :
              ret.breakevenPoints[j] < ret.breakevenPoints[j + 1]
        /\ \A j, k \in 1..Len(ret.breakevenPoints) :
              ret.breakevenPoints[j] = ret.breakevenPoints[k] => j = k

\* a straddle at 1.00 costing 0.20, analyzed at a spot of 1.00: the grid
\* holds 0.80 twice, the pl is 0 at both, and 0.80 and 1.20 are reported
C21_Witness ==
    /\ op = "analyze_straddle"
    /\ args.spotPrice = PennyStock /\ args.strike = PennyStock
    /\ \E i \in 2..101 :
          /\ ret.plData[i - 1].price = ret.plData[i].price
          /\ ret.plData[i].pl = 0
          /\ ret.plData[i].price = ret.breakevenPoints[1]
    /\ ret.breakevenPoints = <<800, 1200>>

\* the solver is in its loop, called with a market price
C22_InLoop == op = "iv_loop" /\ args.optionPrice # Undefined

\* C22: the solver never calls the pricing kernel with a volatility <= 0: the
\* first call is made at 0.2 and, for finite inputs, every sigma that a
\* Newton update hands to the next kernel call is strictly positive and at
\* most 5, for every market price, those below the intrinsic value or above
\* the spot included.
C22_KernelSigmaPositive ==
    /\ [](C22_InLoop =>
            /\ iv.sigma # NaN
            /\ 0 < iv.sigma /\ iv.sigma <= MaxSigma
            /\ iv.i = 0 => iv.sigma = InitialGuess)
    /\ [][(C22_InLoop /\ iv'.evals = iv.evals + 1) =>
             (0 < iv.sigma /\ iv.sigma <= MaxSigma)]_vars

\* a market price of 150 for a stock at 100: the first update is cut to 5
\* and the kernel is about to be called there
C22_Witness ==
    /\ op = "iv_loop"
    /\ args.optionPrice = 150000 /\ args.spotPrice = 100000
    /\ iv.i = 1 /\ iv.evals = 1
    /\ iv.sigma = MaxSigma
    /\ iv.i < C15_Limit

\* a covered call has been analyzed
C23_Case == op = "analyzeStrategy" /\ built.name = "coveredCall"

\* (callStrike - stockPrice + callPremium) * 100
C23_Cap == (built.callStrike - built.stockPrice + built.callPremium) * 100

\* C23: for a covered call built by coveredCall(stockPrice, callStrike,
\* callPremium, expiry) the 100 shares offset the short contract above the
\* strike: at every price >= callStrike the pl is the constant
\* (callStrike - stockPrice + callPremium) * 100, at every price <= callStrike
\* it is (price - stockPrice + callPremium) * 100; the pl is non-decreasing in
\* the price and the maxProfit of analyze never exceeds that constant.
C23_SharesOffsetTheCall ==
    C23_Case =>
        LET pd == ret.plData
        IN  /\ \A i \in 1..Len(pd) :
                  /\ pd[i].price >= built.callStrike => pd[i].pl = C23_Cap
                  /\ pd[i].price <= built.callStrike =>
                        pd[i].pl = (pd[i].price - built.stockPrice
                                      + built.callPremium) * 100
            /\ \A i \in 2..Len(pd) : pd[i - 1].pl <= pd[i].pl
            /\ ret.maxProfit <= C23_Cap

\* stock bought at 100, the 110 call sold for 2, analyzed at a spot of 100:
\* the grid runs from 70 to 130 and the profit is capped at 1200
C23_Witness ==
    /\ C23_Case
    /\ built.stockPrice = 100000 /\ built.callStrike = 110000
    /\ built.callPremium = 2000
    /\ args.spotPrice = 100000
    /\ ret.plData[1].pl = -2800000
    /\ ret.plData[101].pl = 1200000
    /\ ret.maxProfit = 1200000

\* a request for one of the five brokerage tools while the access token or
\* its secret is missing
C24_WithoutTokens ==
    /\ args.name \in {"get_options_chain", "get_option_expiries", "get_quote",
                      "get_accounts", "get_positions"}
    /\ args.accessToken = "" \/ args.accessTokenSecret = ""

\* C24: the tool-call handler gates only the brokerage tools on
\* authentication: for get_options_chain, get_option_expiries, get_quote,
\* get_accounts and get_positions without both an access token and its secret
\* it returns the 'Not authenticated' response, handleToolCall is never called
\* and no brokerage request is made; for every other tool name handleToolCall
\* is called with or without tokens; and every request, one for an unknown
\* tool or a tool that throws included, ends in a returned response, with
\* isError set when the tool threw.
C24_OnlyBrokerageGated ==
    /\ [][(op = "CallToolRequest" /\ C24_WithoutTokens) =>
             /\ op' = "response"
             /\ ret' = [error |-> "Not authenticated with E*TRADE"]]_vars
    /\ [](op \in {"handleToolCall", "apiGet"} => ~ C24_WithoutTokens)
    /\ [][(op = "CallToolRequest" /\ ~ C24_WithoutTokens) =>
             op' = "handleToolCall"]_vars
    /\ [][(op \in {"handleToolCall", "apiGet"} /\ op' = "response") =>
             \/ ret' = [result |-> args.name]
             \/ "isError" \in DOMAIN ret' /\ ret'.isError]_vars
    /\ (op = "CallToolRequest") ~> (op = "response")

\* get_quote with an access token but no secret: refused
C24_Witness ==
    /\ op = "response"
    /\ args.name = "get_quote"
    /\ args.accessToken = "token" /\ args.accessTokenSecret = ""
    /\ ret = [error |-> "Not authenticated with E*TRADE"]

\* an unknown tool, called without tokens, ends in an error response
C24_UnknownToolAnswered ==
    /\ op = "response"
    /\ args.name = "no_such_tool"
    /\ args.accessToken = ""
    /\ ret = [error |-> "Unknown tool", isError |-> TRUE, tool |-> "no_such_tool"]

\* the value supplied by the caller, d when none is supplied
C25_Supplied(x, d) == IF x = Undefined THEN d ELSE x

\* the kernel's values at the initial guess for the rate of the request
C25_FirstResult ==
    calculateGreeks(args.spotPrice, args.strikePrice, args.timeToExpiry,
                    C25_Supplied(args.riskFreeRate, DefaultRate),
                    InitialGuess, args.optionType)

\* C25: the calculate_greeks and calculate_implied_volatility tools pass the
\* riskFreeRate of the request to the engine unchanged for every number
\* supplied, 0 included, and use 0.05 only when none is supplied; likewise
\* calculate_pl_chart uses the priceRangePercent supplied and 0.2 only when
\* none is supplied.
C25_SuppliedValuesUnchanged ==
    /\ op = "calculate_greeks" =>
          ret = calculateGreeks(args.spotPrice, args.strikePrice,
                                args.timeToExpiry,
                                C25_Supplied(args.riskFreeRate, DefaultRate),
                                args.volatility, args.optionType)
    /\ (op = "iv_loop" /\ iv.evals = 1) =>
          iv.sigma = KeepReasonable(
                        NewtonUpdate(InitialGuess,
                                     PriceDiff(C25_FirstResult, args.optionPrice),
                                     VegaPerUnit(C25_FirstResult)))
    /\ op = "calculate_pl_chart" =>
          ret.priceRange =
             generatePriceRange(args.spotPrice,
                                C25_Supplied(args.priceRangePercent, DefaultPercent),
                                ChartSteps)

\* a value of 0 in the request
C25_ZeroSupplied ==
    \/ op \in {"calculate_greeks", "iv_loop"} /\ args.riskFreeRate = 0
    \/ op = "calculate_pl_chart" /\ args.priceRangePercent = 0

\* the tools do use every value supplied other than 0
C25_NonZeroValuesUnchanged ==
    (~ C25_ZeroSupplied) => C25_SuppliedValuesUnchanged

\* with a value of 0 the tools behave as if none were supplied
C25_ZeroReplaced ==
    /\ (op = "calculate_greeks" /\ args.riskFreeRate = 0) =>
          ret = calculateGreeks(args.spotPrice, args.strikePrice,
                                args.timeToExpiry, DefaultRate,
                                args.volatility, args.optionType)
    /\ (op = "calculate_pl_chart" /\ args.priceRangePercent = 0) =>
          ret.priceRange = generatePriceRange(args.spotPrice, DefaultPercent,
                                               ChartSteps)

====
